---- MODULE Spec2Model ----
(***************************************************************************)
(* The synchronous serial transport of pymodbus/client/serial.py           *)
(* (ModbusSerialClient): connect / close / send / recv, the polling loop   *)
(* _wait_for_data, and the serial device they drive.                       *)
(*                                                                         *)
(* Two transport instances target the same endpoint.  The device is the    *)
(* environment: it owns the receive buffer, grants or refuses an open,     *)
(* delivers bytes while time passes, and any access to it may raise.       *)
(* A step of a client is the code it runs between two points where time    *)
(* passes (time.sleep in the polling loop, a blocked socket.read).         *)
(* Time is counted in units of _recv_interval.                             *)
(*                                                                         *)
(* Three smaller specifications stand beside the one of the transport:     *)
(* SpecTiming, the timing profile __init__ computes; SpecAsync, the        *)
(* reconnect task of AsyncModbusSerialClient; SpecTxn, the transaction     *)
(* engine over the transport.  Each one moves its own variables and        *)
(* leaves the others as built.                                             *)
(***************************************************************************)
EXTENDS Integers, Sequences, FiniteSets, TLC

Clients == {"A", "B"}
\* The transport whose caller sends and receives; the other one belongs to
\* another process, which only opens and closes the line.
Callers == {"A"}

\* self.socket is None / a serial.Serial object
None == "None"
Serial == "Serial"

\* comm_params.timeout_connect, in units of _recv_interval
Timeout == 2
\* the longest a time.sleep(_recv_interval) takes, in units of _recv_interval
MaxSleep == 1
\* the bytes the remote side delivers in one run; a byte is its sequence number
MaxBytes == 2
\* the longest request handed to send
MaxRequest == 1

VARIABLES
    socket,     \* socket[c]: self.socket of transport c
    state,      \* state[c]: self.state (ModbusTransactionState)
    locked,     \* the transports whose device handle is open at the OS
    rx,         \* the receive buffer of the line
    delivered,  \* how many bytes the remote side has delivered so far
    pc,         \* pc[c]: "idle", or where recv of c is suspended
    loc,        \* loc[c]: the locals of the recv call in progress
    ret,        \* how the last completed call ended, and its device accesses
    timing,     \* the line parameters of a ModbusSerialClient and its timing profile
    comm_params,              \* AsyncModbusSerialClient: reconnect_delay, reconnect_delay_max
    aconnected,               \* the asynchronous client is connected
    reconnect_task,           \* "none", or "sleeping": a reconnect is scheduled
    reconnect_delay_current,  \* the delay before the next reconnect attempt
    lastev,     \* the last thing that happened to the asynchronous client
    params,     \* retries, retry_on_empty, broadcast_enable, no_resend_on_retry
    xconnected, \* the transport under the transaction engine is Connected
    txn         \* the transaction the engine is running, or has run last

\* the transport and its device
tvars == <<socket, state, locked, rx, delivered, pc, loc, ret>>

\* the asynchronous client and its reconnect task
avars == <<comm_params, aconnected, reconnect_task, reconnect_delay_current, lastev>>

\* the transaction engine and the transport as it sees it
xvars == <<params, xconnected, txn>>

vars == <<tvars, timing, avars, xvars>>

\* what a step of the transport or of the device leaves alone
beside_transport == <<timing, avars, xvars>>
\* what __init__ of the synchronous client leaves alone
beside_timing == <<tvars, avars, xvars>>
\* what a step of the asynchronous client leaves alone
beside_async == <<tvars, timing, xvars>>
\* what a step of the transaction engine leaves alone
beside_txn == <<tvars, timing, avars>>

\* An optional size: <<>> is None, <<n>> is n.
Sizes == {<<>>} \cup {<<n>> : n \in 0..MaxBytes}
Requests == {[i \in 1..n |-> 0] : n \in 0..MaxRequest}

Drop(s, n) == SubSeq(s, n + 1, Len(s))
Take(s, n) == SubSeq(s, 1, n)

----------------------------------------------------------------------------
\* How the call op of transport c ended.  pre: self.socket was present at the
\* call; n, ok, data: the value returned; written: what socket.write returned
\* to send; log: the device accesses of the call,
\* in order; time: how long a recv took; reason, seen, lastc, prevc: how the
\* first polling loop of a recv ended (see poll).
Ret(c, op, out) ==
    [who |-> c, op |-> op, out |-> out, pre |-> FALSE, n |-> 0, ok |-> FALSE,
     data |-> <<>>, written |-> <<>>, arg |-> <<>>, log |-> <<>>, time |-> 0,
     reason |-> "none", seen |-> <<>>, lastc |-> 0, prevc |-> 0]

\* The locals of recv and _wait_for_data.  size: recv's size; wsize, more_data:
\* _wait_for_data's size and more_data; elapsed: time.time() - start; relapsed:
\* how long socket.read has been blocked; total: time since recv was called;
\* exit: why the loop just run was left; reason: why the first loop was left.
Loc0 ==
    [size |-> 0, wsize |-> 0, more_data |-> FALSE, elapsed |-> 0, relapsed |-> 0,
     total |-> 0, arg |-> <<>>, log |-> <<>>, exit |-> "none", reason |-> "none",
     seen |-> <<>>, lastc |-> 0, prevc |-> 0]

TransportInit ==
    /\ socket = [c \in Clients |-> None]
    /\ state = [c \in Clients |-> "IDLE"]
    /\ locked = {}
    /\ rx = <<>>
    /\ delivered = 0
    /\ pc = [c \in Clients |-> "idle"]
    /\ loc = [c \in Clients |-> Loc0]
    /\ ret = Ret("A", "none", "return")

----------------------------------------------------------------------------
\* The device.

\* serial_for_url(..., exclusive=True)
exclusive == TRUE

\* An open is granted only when exclusive access can be had.
CanOpen(lk) == ~exclusive \/ lk = {}

\* An access through an open handle works or raises; through a handle the OS
\* has released it raises.
DeviceOutcomes(c, lk) == IF c \in lk THEN {"ok", "raises"} ELSE {"raises"}

\* The buffer of a line nobody holds is dropped.
Line(lk, buf) == IF lk = {} THEN <<>> ELSE buf

\* The remote side delivers the next k bytes.
Arrive ==
    /\ locked # {}
    /\ \E k \in 1..(MaxBytes - delivered) :
          /\ rx' = rx \o [i \in 1..k |-> delivered + i]
          /\ delivered' = delivered + k
    /\ UNCHANGED <<socket, state, locked, pc, loc, ret>>
    /\ UNCHANGED beside_transport

\* The buffered bytes are lost (the driver resets its input buffer).
BufferReset ==
    /\ rx # <<>>
    /\ rx' = <<>>
    /\ UNCHANGED <<socket, state, locked, delivered, pc, loc, ret>>
    /\ UNCHANGED beside_transport

----------------------------------------------------------------------------
\* connect, close, is_socket_open, connected

\* What the device does during socket.close(): it closes the handle, or it
\* raises, having released the handle or not.
CloseOutcomes == {"closed", "raises_released", "raises_held"}

\* close() run on a transport whose self.socket is sock, with the OS handles lk.
close_body(c, sock, lk, o) ==
    IF sock = None
    THEN [socket |-> None, locked |-> lk, raised |-> FALSE, log |-> <<>>]
    ELSE IF o = "closed"
    THEN [socket |-> None, locked |-> lk \ {c}, raised |-> FALSE,
          log |-> <<"close">>]
    ELSE [socket |-> sock,
          locked |-> IF o = "raises_released" THEN lk \ {c} ELSE lk,
          raised |-> TRUE, log |-> <<"close">>]

close(c) ==
    /\ pc[c] = "idle"
    /\ \E o \in CloseOutcomes :
          LET r == close_body(c, socket[c], locked, o) IN
          /\ socket' = [socket EXCEPT ![c] = r.socket]
          /\ locked' = r.locked
          /\ rx' = Line(r.locked, rx)
          /\ ret' = [Ret(c, "close", IF r.raised THEN "DeviceError" ELSE "return")
                        EXCEPT !.pre = socket[c] # None, !.log = r.log]
    /\ UNCHANGED <<state, delivered, pc, loc>>
    /\ UNCHANGED beside_transport

\* A connect that does not look at self.socket first.
AlreadyConnected_unchecked(c) == FALSE

\* if self.socket: return True
AlreadyConnected(c) == socket[c] # None

\* connect(), called as connect() or through the connected property (op).
connect_body(c, op) ==
    /\ pc[c] = "idle"
    /\ \/ /\ AlreadyConnected(c)
          /\ ret' = [Ret(c, op, "return") EXCEPT !.ok = TRUE, !.pre = socket[c] # None]
          /\ UNCHANGED <<socket, locked, rx>>
       \/ \* serial_for_url raises; close() finds no socket
          /\ ~AlreadyConnected(c)
          /\ LET r == close_body(c, socket[c], locked, "closed") IN
             /\ socket' = [socket EXCEPT ![c] = r.socket]
             /\ locked' = r.locked
             /\ rx' = Line(r.locked, rx)
             /\ ret' = [Ret(c, op, "return")
                           EXCEPT !.ok = r.socket # None, !.log = <<"open">> \o r.log]
       \/ \* the device is opened and configured
          /\ ~AlreadyConnected(c)
          /\ CanOpen(locked)
          /\ socket' = [socket EXCEPT ![c] = Serial]
          /\ locked' = locked \cup {c}
          /\ rx' = rx
          /\ ret' = [Ret(c, op, "return")
                        EXCEPT !.ok = TRUE, !.log = <<"open", "inter_byte_timeout">>]
       \/ \* the device is opened, setting inter_byte_timeout raises; close()
          /\ ~AlreadyConnected(c)
          /\ CanOpen(locked)
          /\ \E o \in CloseOutcomes :
                LET r == close_body(c, Serial, locked \cup {c}, o) IN
                /\ socket' = [socket EXCEPT ![c] = r.socket]
                /\ locked' = r.locked
                /\ rx' = Line(r.locked, rx)
                /\ ret' = [Ret(c, op, IF r.raised THEN "DeviceError" ELSE "return")
                              EXCEPT !.ok = ~r.raised /\ r.socket # None,
                                     !.log = <<"open", "inter_byte_timeout">> \o r.log]
    /\ UNCHANGED <<state, delivered, pc, loc>>
    /\ UNCHANGED beside_transport

connect(c) == connect_body(c, "connect")

\* A connected property that only looks at self.socket.
connected_query(c) ==
    /\ pc[c] = "idle"
    /\ ret' = [Ret(c, "connected", "return")
                  EXCEPT !.ok = socket[c] # None, !.pre = socket[c] # None]
    /\ UNCHANGED <<socket, state, locked, rx, delivered, pc, loc>>
    /\ UNCHANGED beside_transport

\* the connected property: return self.connect()
connected(c) == connect_body(c, "connected")

\* An is_socket_open that tries to connect when it finds no socket.
is_socket_open_reconnects(c) == connect_body(c, "is_socket_open")

is_socket_open(c) ==
    /\ pc[c] = "idle"
    /\ ret' = [Ret(c, "is_socket_open", "return")
                  EXCEPT !.ok = socket[c] # None, !.pre = socket[c] # None]
    /\ UNCHANGED <<socket, state, locked, rx, delivered, pc, loc>>
    /\ UNCHANGED beside_transport

----------------------------------------------------------------------------
\* send

\* ModbusBaseSyncClient._start_send: a new transaction state SENDING, unless
\* the transaction is being retried.
_start_send(st) == IF st = "RETRYING" THEN st ELSE "SENDING"

\* A send / recv that does not look at self.socket first.
NotConnected_unchecked(c) == FALSE

\* if not self.socket: raise ConnectionException
NotConnected(c) == socket[c] = None

\* What socket.write(request) returns: None (<<>>) or a count.
WriteResults(request) == {<<>>} \cup {<<k>> : k \in 0..Len(request)}

\* if (size := self.socket.write(request)) is None: size = 0
WrittenSize(w) == IF w = <<>> THEN 0 ELSE w[1]

\* A send that leaves the stale bytes where they are.
CleanupRecvBuffer_skipped(buf, waitingbytes) == buf

\* result = self.socket.read(waitingbytes): the receive buffer afterwards
CleanupRecvBuffer(buf, waitingbytes) == Drop(buf, waitingbytes)

\* A send that treats an empty request like any other.
EmptyRequest_written(request) == FALSE

\* if request: ... else: return 0
EmptyRequest(request) == request = <<>>

\* The ways send can go for a non-empty request on a socket that is present:
\* [rx, out, n, written, log].  dev: what an access to the device can do.
send_body(request, buf, dev) ==
    LET waitingbytes == Len(buf)
        lg1 == <<"in_waiting">>
        lg2 == IF waitingbytes # 0 THEN lg1 \o <<"read">> ELSE lg1
        buf2 == IF waitingbytes # 0 THEN CleanupRecvBuffer(buf, waitingbytes) ELSE buf
        Raise(b, lg) ==
            [rx |-> b, out |-> "DeviceError", n |-> 0, written |-> <<>>, log |-> lg]
    IN  IF "ok" \notin dev
        THEN {Raise(buf, lg1)}
        ELSE {Raise(buf, lg1)}
             \cup (IF waitingbytes # 0 THEN {Raise(buf, lg2)} ELSE {})
             \cup {Raise(buf2, lg2 \o <<"write">>)}
             \cup {[rx |-> buf2, out |-> "return", n |-> WrittenSize(w),
                    written |-> w, log |-> lg2 \o <<"write">>] :
                   w \in WriteResults(request)}

send(c, request) ==
    /\ pc[c] = "idle"
    /\ state' = [state EXCEPT ![c] = _start_send(state[c])]
    /\ IF NotConnected(c)
       THEN /\ ret' = [Ret(c, "send", "ConnectionException") EXCEPT !.arg = request]
            /\ rx' = rx
       ELSE IF EmptyRequest(request)
       THEN /\ ret' = [Ret(c, "send", "return") EXCEPT !.arg = request, !.pre = socket[c] # None]
            /\ rx' = rx
       ELSE \E r \in send_body(request, rx, DeviceOutcomes(c, locked)) :
               /\ ret' = [Ret(c, "send", r.out)
                             EXCEPT !.arg = request, !.pre = socket[c] # None,
                                    !.n = r.n, !.written = r.written, !.log = r.log]
               /\ rx' = r.rx
    /\ UNCHANGED <<socket, locked, delivered, pc, loc>>
    /\ UNCHANGED beside_transport

----------------------------------------------------------------------------
\* recv and _wait_for_data
\*
\* A step of recv is a set of ways it can go on, each [pc, l, rx, fin, data]:
\* pc: where it is suspended next ("idle": the call is over), l: its locals,
\* rx: the receive buffer, fin: "run", "return" or the exception raised.

Raised(l, buf, access) ==
    [pc |-> "idle", l |-> [l EXCEPT !.log = Append(@, access)], rx |-> buf,
     fin |-> "DeviceError", data |-> <<>>]

\* A read that hands over all that is buffered, whatever size it was given.
Returned_whole(l, buf, n) ==
    [pc |-> "idle", l |-> l, rx |-> <<>>, fin |-> "return", data |-> buf]

\* self.socket.read(size) returns the first n buffered bytes
Returned(l, buf, n) ==
    [pc |-> "idle", l |-> l, rx |-> Drop(buf, n), fin |-> "return",
     data |-> Take(buf, n)]

\* condition: (time.time() - start) <= timeout
condition(elapsed) == elapsed <= Timeout

\* A loop that stops as soon as data has been seen.
FrameComplete_early(more_data, available, size) == more_data

\* if (more_data and not available) or (more_data and available == size): break
FrameComplete(more_data, available, size) ==
    (more_data /\ available = 0) \/ (more_data /\ available = size)

\* if available and available != size: more_data = True; size = available
NewData(available, size) == available # 0 /\ available # size

\* time.sleep(self._recv_interval)
Sleep(l, buf, phase) ==
    {[pc |-> phase, l |-> [l EXCEPT !.elapsed = @ + d, !.total = @ + d],
      rx |-> buf, fin |-> "run", data |-> <<>>] : d \in 1..MaxSleep}

\* result = self.socket.read(size), entered: it returns at once when size bytes
\* are buffered, and blocks otherwise.
ReadNow(l, buf, dev) ==
    LET lg == [l EXCEPT !.log = Append(@, "read")] IN
    {Raised(l, buf, "read")}
    \cup (IF "ok" \notin dev THEN {}
          ELSE IF Len(buf) >= l.size THEN {Returned(lg, buf, l.size)}
          ELSE {[pc |-> "read", l |-> [lg EXCEPT !.relapsed = 0], rx |-> buf,
                 fin |-> "run", data |-> <<>>]})

\* socket.read(size), blocked, one unit of time later: it returns when size
\* bytes are buffered, or what is buffered when its timeout (timeout_connect)
\* is over.
ReadWake(l, buf, dev) ==
    LET l2 == [l EXCEPT !.relapsed = @ + 1, !.total = @ + 1] IN
    {[pc |-> "idle", l |-> l2, rx |-> buf, fin |-> "DeviceError", data |-> <<>>]}
    \cup (IF "ok" \notin dev THEN {}
          ELSE IF Len(buf) >= l.size THEN {Returned(l2, buf, l.size)}
          ELSE IF l2.relapsed >= Timeout THEN {Returned(l2, buf, Len(buf))}
          ELSE {[pc |-> "read", l |-> l2, rx |-> buf, fin |-> "run",
                 data |-> <<>>]})

\* What a poll of the first loop of a recv saw: the buffer, its count, and the
\* count recorded before it.
Observe(l, phase, buf) ==
    IF phase = "wait1"
    THEN [l EXCEPT !.seen = buf, !.lastc = Len(buf), !.prevc = l.wsize]
    ELSE l

\* The loop is left: [fin |-> "exit"], with the reason in the locals.
LoopExit(l, buf, reason) ==
    [pc |-> "idle", l |-> [l EXCEPT !.exit = reason], rx |-> buf, fin |-> "exit",
     data |-> <<>>]

\* One pass of `while condition(start):` in _wait_for_data, up to the sleep or
\* out of the loop.
poll(l, buf, dev, phase) ==
    IF ~condition(l.elapsed)
    THEN {LoopExit(l, buf, "timeout")}
    ELSE LET available == Len(buf)
             lg == Observe([l EXCEPT !.log = Append(@, "in_waiting")], phase, buf)
         IN  {Raised(l, buf, "in_waiting")}
             \cup (IF "ok" \notin dev THEN {}
                   ELSE IF FrameComplete(l.more_data, available, l.wsize)
                   THEN {LoopExit(lg, buf, IF available = 0 THEN "emptied" ELSE "stable")}
                   ELSE IF NewData(available, l.wsize)
                   THEN Sleep([lg EXCEPT !.more_data = TRUE, !.wsize = available],
                              buf, phase)
                   ELSE Sleep(lg, buf, phase))

\* size = 0; more_data = False; start = time.time()
EnterLoop(l) == [l EXCEPT !.wsize = 0, !.more_data = FALSE, !.elapsed = 0]

\* self._wait_for_data() of line 311, its value dropped; then the read
Wait2(l, buf, dev) ==
    UNION {IF r.fin = "exit" THEN ReadNow(r.l, buf, dev) ELSE {r} :
           r \in poll(l, buf, dev, "wait2")}

\* if size > self._in_waiting(): self._wait_for_data()
\* result = self.socket.read(size)
CheckAndRead(l, buf, dev) ==
    LET lg == [l EXCEPT !.log = Append(@, "in_waiting")] IN
    {Raised(l, buf, "in_waiting")}
    \cup (IF "ok" \notin dev THEN {}
          ELSE IF l.size > Len(buf) THEN Wait2(EnterLoop(lg), buf, dev)
          ELSE ReadNow(lg, buf, dev))

\* size = self._wait_for_data() of line 309; then the rest of recv
Wait1(l, buf, dev) ==
    UNION {IF r.fin = "exit"
           THEN CheckAndRead([r.l EXCEPT !.size = r.l.wsize, !.reason = r.l.exit],
                             buf, dev)
           ELSE {r} :
           r \in poll(l, buf, dev, "wait1")}

\* The step r of the recv of transport c is taken.
Continue(c, r) ==
    /\ pc' = [pc EXCEPT ![c] = r.pc]
    /\ loc' = [loc EXCEPT ![c] = IF r.pc = "idle" THEN Loc0 ELSE r.l]
    /\ rx' = r.rx
    /\ ret' = IF r.fin = "run"
              THEN [Ret(c, "recv", "run") EXCEPT !.arg = r.l.arg, !.pre = socket[c] # None]
              ELSE [Ret(c, "recv", r.fin)
                       EXCEPT !.pre = socket[c] # None, !.data = r.data, !.n = Len(r.data),
                              !.arg = r.l.arg, !.log = r.l.log, !.time = r.l.total,
                              !.reason = r.l.reason, !.seen = r.l.seen,
                              !.lastc = r.l.lastc, !.prevc = r.l.prevc]
    /\ UNCHANGED <<socket, state, locked, delivered>>
    /\ UNCHANGED beside_transport

recv(c, size) ==
    /\ pc[c] = "idle"
    /\ IF NotConnected(c)
       THEN /\ ret' = [Ret(c, "recv", "ConnectionException") EXCEPT !.arg = size]
            /\ UNCHANGED <<socket, state, locked, rx, delivered, pc, loc>>
            /\ UNCHANGED beside_transport
       ELSE LET l == [Loc0 EXCEPT !.arg = size]
                dev == DeviceOutcomes(c, locked)
            IN  \E r \in (IF size = <<>>
                          THEN Wait1(EnterLoop(l), rx, dev)
                          ELSE CheckAndRead([l EXCEPT !.size = size[1]], rx, dev)) :
                   Continue(c, r)

\* The polling loop of the recv of c wakes from its sleep.
_wait_for_data(c) ==
    /\ pc[c] \in {"wait1", "wait2"}
    /\ \E r \in (IF pc[c] = "wait1"
                 THEN Wait1(loc[c], rx, DeviceOutcomes(c, locked))
                 ELSE Wait2(loc[c], rx, DeviceOutcomes(c, locked))) :
          Continue(c, r)

\* A unit of time passes for the blocked socket.read of the recv of c.
read(c) ==
    /\ pc[c] = "read"
    /\ \E r \in ReadWake(loc[c], rx, DeviceOutcomes(c, locked)) : Continue(c, r)

----------------------------------------------------------------------------
\* AsyncModbusSerialClient and the reconnect task of its base class.
\*
\* Delays are counted in units of 0.1 s.  The base class is not part of the
\* files modelled here: its reconnect task follows the description of the
\* reconnect controller.

\* the longest reconnect_delay and reconnect_delay_max a client is built with
MaxReconnectDelay == 2
MaxReconnectDelayMax == 5

\* CommParams(reconnect_delay=..., reconnect_delay_max=...): reconnect_delay is
\* the minimum delay and reconnect_delay_max the maximum one.
CommParams ==
    {[reconnect_delay |-> d, reconnect_delay_max |-> m] :
     d \in 0..MaxReconnectDelay, m \in 1..MaxReconnectDelayMax}

Event(kind, ok, waited, cb) == [kind |-> kind, ok |-> ok, waited |-> waited, cb |-> cb]

\* AsyncModbusSerialClient.__init__
AsyncBuilt(cp) ==
    /\ comm_params = cp
    /\ aconnected = FALSE
    /\ reconnect_task = "none"
    /\ reconnect_delay_current = cp.reconnect_delay
    /\ lastev = Event("init", FALSE, 0, FALSE)

\* The client built with the defaults: reconnect_delay 0.1 s, reconnect_delay_max 300 s.
AsyncDefault == AsyncBuilt([reconnect_delay |-> 1, reconnect_delay_max |-> 3000])

\* A client that reconnects whatever reconnect_delay is.
ReconnectEnabled_always == TRUE

\* reconnect_delay = 0 disables automatic reconnection
ReconnectEnabled == comm_params.reconnect_delay # 0

\* A delay that doubles without a limit.
NextDelay_uncapped(delay) == 2 * delay

\* after a failed attempt the delay is doubled, capped at reconnect_delay_max
NextDelay(delay) ==
    IF 2 * delay < comm_params.reconnect_delay_max
    THEN 2 * delay ELSE comm_params.reconnect_delay_max

\* A retry is scheduled after reconnect_delay, unless reconnection is disabled.
ScheduleReconnect ==
    /\ reconnect_task' = IF ReconnectEnabled THEN "sleeping" ELSE "none"
    /\ reconnect_delay_current' = comm_params.reconnect_delay

\* await client.connect(): the initial connect succeeds or fails
async_connect ==
    /\ ~aconnected /\ reconnect_task = "none"
    /\ \E ok \in BOOLEAN :
          /\ aconnected' = ok
          /\ lastev' = Event("connect", ok, 0, FALSE)
          /\ IF ok THEN UNCHANGED <<reconnect_task, reconnect_delay_current>>
                   ELSE ScheduleReconnect
    /\ UNCHANGED <<comm_params, beside_async>>

\* the connection is lost
connection_lost ==
    /\ aconnected
    /\ aconnected' = FALSE
    /\ lastev' = Event("lost", FALSE, 0, FALSE)
    /\ ScheduleReconnect
    /\ UNCHANGED <<comm_params, beside_async>>

\* The reconnect task wakes after reconnect_delay_current: the callback is
\* invoked, then the connect is attempted.
do_reconnect ==
    /\ reconnect_task = "sleeping"
    /\ \E ok \in BOOLEAN :
          /\ aconnected' = ok
          /\ lastev' = Event("reconnect", ok, reconnect_delay_current, TRUE)
          /\ reconnect_task' = IF ok THEN "none" ELSE "sleeping"
          /\ reconnect_delay_current' =
                IF ok THEN comm_params.reconnect_delay
                      ELSE NextDelay(reconnect_delay_current)
    /\ UNCHANGED <<comm_params, beside_async>>

\* AsyncModbusSerialClient.close(reconnect): super().close(reconnect=reconnect)
async_close(reconnect) ==
    /\ aconnected' = FALSE
    /\ lastev' = Event("close", reconnect, 0, FALSE)
    /\ IF reconnect
       THEN ScheduleReconnect
       ELSE reconnect_task' = "none" /\ UNCHANGED reconnect_delay_current
    /\ UNCHANGED <<comm_params, beside_async>>

----------------------------------------------------------------------------
\* The transaction engine: one call of execute drives one request / reply
\* exchange over the transport.
\*
\* The engine is not part of the files modelled here: it follows the
\* description of the transaction / retry engine.  Of the transport it uses
\* what send and recv do: on a Disconnected transport they raise
\* ConnectionException, on a Connected one send writes the request and recv
\* returns the reply, which may be empty.

\* the largest retries a client is built with
MaxRetries == 3

\* the addresses a request is sent to; 0 is the broadcast address
Slaves == {0, 1}

\* retries, retry_on_empty, broadcast_enable, no_resend_on_retry of __init__
Params ==
    [retries : 0..MaxRetries, retry_on_empty : BOOLEAN,
     broadcast_enable : BOOLEAN, no_resend_on_retry : BOOLEAN]

\* state: Idle, Sending, WaitingForReply, Retrying, Failed, Complete;
\* retries: the retries left; sends, recvs: the calls of send and recv made;
\* empties: the empty replies received in a row; result: how it was resolved.
Txn0 ==
    [state |-> "Idle", slave |-> 0, retries |-> 0, sends |-> 0, recvs |-> 0,
     empties |-> 0, result |-> "none"]

\* The engine of a client built with p, before its first transaction.
TxnBuilt(p) ==
    /\ params = p
    /\ xconnected = FALSE
    /\ txn = Txn0

\* The client built with the defaults: retries 3, the three flags off.
TxnDefault ==
    TxnBuilt([retries |-> 3, retry_on_empty |-> FALSE,
              broadcast_enable |-> FALSE, no_resend_on_retry |-> FALSE])

\* A send that does not look at self.socket first.
SendRaises_never == FALSE

\* send(request) as the engine sees it: if not self.socket: raise ConnectionException
SendRaises == ~xconnected

\* recv(size) as the engine sees it: if not self.socket: raise ConnectionException
RecvRaises == ~xconnected

\* what recv returns on a Connected transport: no bytes, or a reply
Replies == {"empty", "reply"}

\* An engine that waits for a reply to every request.
IsBroadcast_ignored(slave) == FALSE

\* the target is the broadcast address and broadcast handling is enabled
IsBroadcast(slave) == slave = 0 /\ params.broadcast_enable

\* An engine that retries for as long as the replies are empty.
CanRetry_forever(t) == params.retry_on_empty

\* retry_on_empty is enabled and retries are left
CanRetry(t) == params.retry_on_empty /\ t.retries > 0

\* a connection failure ends the transaction with a connection error
ConnectionFailure(t) == [t EXCEPT !.state = "Failed", !.result = "ConnectionError"]

\* the request has been written
Sent(t) ==
    IF IsBroadcast(t.slave)
    THEN [t EXCEPT !.state = "Complete", !.result = "ok", !.sends = @ + 1]
    ELSE [t EXCEPT !.state = "WaitingForReply", !.sends = @ + 1]

\* recv has returned reply
Received(t, reply) ==
    IF reply = "reply"
    THEN [t EXCEPT !.state = "Complete", !.result = "ok", !.recvs = @ + 1,
                   !.empties = 0]
    ELSE LET e == [t EXCEPT !.recvs = @ + 1, !.empties = @ + 1] IN
         IF CanRetry(t)
         THEN [e EXCEPT !.state = "Retrying", !.retries = @ - 1]
         ELSE [e EXCEPT !.state = "Failed", !.result = "ProtocolRetryExhausted"]

\* execute(request) is called for a request to slave
execute(slave) ==
    /\ txn.state \in {"Idle", "Complete", "Failed"}
    /\ txn' = [Txn0 EXCEPT !.state = "Sending", !.slave = slave,
                           !.retries = params.retries]
    /\ UNCHANGED <<params, xconnected, beside_txn>>

\* the engine sends the request
txn_send ==
    /\ txn.state = "Sending"
    /\ txn' = IF SendRaises THEN ConnectionFailure(txn) ELSE Sent(txn)
    /\ UNCHANGED <<params, xconnected, beside_txn>>

\* the engine awaits the reply
txn_recv ==
    /\ txn.state = "WaitingForReply"
    /\ IF RecvRaises
       THEN txn' = ConnectionFailure(txn)
       ELSE \E reply \in Replies : txn' = Received(txn, reply)
    /\ UNCHANGED <<params, xconnected, beside_txn>>

\* a retry: the request is sent again, or with no_resend_on_retry the engine
\* only listens again
txn_retry ==
    /\ txn.state = "Retrying"
    /\ txn' = IF params.no_resend_on_retry
              THEN [txn EXCEPT !.state = "WaitingForReply"]
              ELSE IF SendRaises THEN ConnectionFailure(txn) ELSE Sent(txn)
    /\ UNCHANGED <<params, xconnected, beside_txn>>

\* connect() returns true, between two transactions
transport_connect ==
    /\ txn.state \in {"Idle", "Complete", "Failed"}
    /\ ~xconnected
    /\ xconnected' = TRUE
    /\ UNCHANGED <<params, txn, beside_txn>>

\* the transport becomes Disconnected
transport_disconnect ==
    /\ xconnected
    /\ xconnected' = FALSE
    /\ UNCHANGED <<params, txn, beside_txn>>

----------------------------------------------------------------------------
\* The timing profile __init__ derives from the line parameters.
\*
\* A time is an exact fraction of a second, <<num, den>>.  stopbits is counted
\* in half bits (stopbits2 = 2 * stopbits), so that 1.5 stop bits is a number.

Baudrates ==
    {300, 600, 1200, 2400, 4800, 9600, 14400, 19200, 19201, 28800, 38400,
     57600, 115200, 230400}
Bytesizes == {7, 8}
Stopbits2 == {2, 3, 4}

\* (a / b) * q
Scale(a, b, q) == <<a * q[1], b * q[2]>>
Same(p, q) == p[1] * q[2] = q[1] * p[2]
Below(p, q) == p[1] * q[2] < q[1] * p[2]

\* max(p, q)
max(p, q) == IF Below(p, q) THEN q ELSE p

\* round(q, 6): the whole numbers of microseconds nearest to q; both of them
\* when q lies halfway, where the float decides.
round6(q) ==
    LET n == q[1] * 1000000
        lo == n \div q[2]
    IN  {<<m, 1000000>> : m \in {k \in {lo, lo + 1} :
                                   2 * (IF k * q[2] >= n THEN k * q[2] - n
                                        ELSE n - k * q[2]) <= q[2]}}

\* self._t0 = float(1 + bytesize + stopbits) / baudrate
_t0(baudrate, bytesize, stopbits2) == <<2 * (1 + bytesize) + stopbits2, 2 * baudrate>>

\* self._recv_interval = self._t0 * 4; then max(self._recv_interval, 0.001)
_recv_interval(t0) == max(Scale(4, 1, t0), <<1, 1000>>)

\* A profile that counts 19200 baud as a high baudrate.
HighBaudrate_inclusive(baudrate) == baudrate >= 19200

\* if baudrate > 19200:
HighBaudrate(baudrate) == baudrate > 19200

\* inter_byte_timeout: the class default 0, or 1.5 * self._t0
inter_byte_timeout(baudrate, t0) ==
    IF HighBaudrate(baudrate) THEN <<0, 1>> ELSE Scale(3, 2, t0)

\* silent_interval before it is rounded: 1.75 / 1000, or 3.5 * self._t0
silent_interval(baudrate, t0) ==
    IF HighBaudrate(baudrate) THEN <<175, 100000>> ELSE Scale(7, 2, t0)

\* The attributes of the class, before __init__ has run.
ClassDefaults(baudrate, bytesize, stopbits2) ==
    [baudrate |-> baudrate, bytesize |-> bytesize, stopbits2 |-> stopbits2,
     made |-> FALSE, t0 |-> <<0, 1>>, recv_interval |-> <<0, 1>>,
     inter_byte_timeout |-> <<0, 1>>, silent_interval |-> <<0, 1>>]

\* The attributes __init__ can leave for the parameters of p.
Profiles(p) ==
    LET t0 == _t0(p.baudrate, p.bytesize, p.stopbits2) IN
    {[p EXCEPT !.made = TRUE, !.t0 = t0,
               !.recv_interval = _recv_interval(t0),
               !.inter_byte_timeout = inter_byte_timeout(p.baudrate, t0),
               !.silent_interval = si] :
     si \in round6(silent_interval(p.baudrate, t0))}

\* ModbusSerialClient.__init__, its timing part
ModbusSerialClient_init ==
    /\ ~timing.made
    /\ timing' \in Profiles(timing)
    /\ UNCHANGED beside_timing

\* The client of the transport specification is built with the defaults:
\* baudrate 19200, bytesize 8, stopbits 1.
Init ==
    /\ TransportInit
    /\ timing \in Profiles(ClassDefaults(19200, 8, 2))
    /\ AsyncDefault
    /\ TxnDefault

\* Any legal line parameters, the client not yet built.
TimingInit ==
    /\ TransportInit
    /\ AsyncDefault
    /\ TxnDefault
    /\ \E baudrate \in Baudrates, bytesize \in Bytesizes, stopbits2 \in Stopbits2 :
          timing = ClassDefaults(baudrate, bytesize, stopbits2)

TimingNext == ModbusSerialClient_init

SpecTiming == TimingInit /\ [][TimingNext]_vars

\* A client built with any reconnect_delay <= reconnect_delay_max.
AsyncInit ==
    /\ TransportInit
    /\ timing \in Profiles(ClassDefaults(19200, 8, 2))
    /\ TxnDefault
    /\ \E cp \in CommParams :
          /\ cp.reconnect_delay <= cp.reconnect_delay_max
          /\ AsyncBuilt(cp)

AsyncNext ==
    \/ async_connect
    \/ connection_lost
    \/ do_reconnect
    \/ \E reconnect \in BOOLEAN : async_close(reconnect)

SpecAsync == AsyncInit /\ [][AsyncNext]_vars

\* A client built with any retries and flags.
TxnInit ==
    /\ TransportInit
    /\ timing \in Profiles(ClassDefaults(19200, 8, 2))
    /\ AsyncDefault
    /\ \E p \in Params : TxnBuilt(p)

TxnNext ==
    \/ \E slave \in Slaves : execute(slave)
    \/ txn_send
    \/ txn_recv
    \/ txn_retry
    \/ transport_connect
    \/ transport_disconnect

SpecTxn == TxnInit /\ [][TxnNext]_vars

----------------------------------------------------------------------------
Next ==
    \/ \E c \in Clients : connect(c)
    \/ \E c \in Clients : connected(c)
    \/ \E c \in Clients : close(c)
    \/ \E c \in Clients : is_socket_open(c)
    \/ \E c \in Callers : \E request \in Requests : send(c, request)
    \/ \E c \in Callers : \E size \in Sizes : recv(c, size)
    \/ \E c \in Callers : _wait_for_data(c)
    \/ \E c \in Callers : read(c)
    \/ Arrive
    \/ BufferReset

Spec == Init /\ [][Next]_vars

----------------------------------------------------------------------------
\* The properties.

Connected(c) == socket[c] # None
Disconnected(c) == socket[c] = None

\* C1: on a Disconnected transport, send and recv with any argument fail with
\* ConnectionException and access the device in no way: no buffered-count
\* query, no read, no write, and the line and the transport are left as they are.
C1_DisconnectedFails ==
    [][\A c \in Clients :
          (/\ Disconnected(c)
           /\ \/ \E request \in Requests : send(c, request)
              \/ \E size \in Sizes : recv(c, size))
          => /\ ret'.who = c
             /\ ret'.out = "ConnectionException"
             /\ ret'.log = <<>>
             /\ UNCHANGED <<socket, locked, rx, delivered, pc, loc>>]_vars

\* A recv has failed on a transport that is Disconnected after a close, while
\* the other process holds the line with bytes buffered.
C1_Witness ==
    /\ ret.who = "A" /\ ret.op = "recv" /\ ret.out = "ConnectionException"
    /\ Disconnected("A") /\ state["A"] = "SENDING"
    /\ locked = {"B"} /\ rx # <<>>

\* C2: connect() on a Connected transport returns true, opens nothing, and
\* leaves the handle, the line and the rest of the transport unchanged (so
\* this holds for any number of connect() calls in a row).
C2_ConnectIdempotent ==
    [][\A c \in Clients :
          (Connected(c) /\ connect(c))
          => /\ ret'.who = c /\ ret'.out = "return" /\ ret'.ok
             /\ ret'.log = <<>>
             /\ UNCHANGED <<socket, state, locked, rx, delivered, pc, loc>>]_vars

\* connect() has returned true on a transport that was Connected at the call,
\* with bytes buffered on the line it holds.
C2_Witness ==
    /\ ret.op = "connect" /\ ret.pre /\ ret.ok /\ ret.log = <<>>
    /\ Connected(ret.who) /\ ret.who \in locked /\ rx # <<>>

\* C3: connect() on a Disconnected transport, when the open or the setting of
\* inter_byte_timeout fails, returns false without raising, keeps no handle
\* and leaves none open at the device; and connect() returns true exactly when
\* the transport is Connected afterwards.
C3_ConnectFailure ==
    [][\A c \in Clients :
          (Disconnected(c) /\ connect(c))
          => /\ ret'.out = "return"
             /\ ret'.ok = Connected(c)'
             /\ Disconnected(c)' => c \notin locked']_vars

\* C4: close() leaves the transport Disconnected, the handle closed, from any
\* state and whatever the device does during the close; on a Disconnected
\* transport it accesses no device and changes nothing.
C4_CloseDisconnects ==
    [][\A c \in Clients :
          close(c)
          => /\ Disconnected(c)' /\ c \notin locked'
             /\ ret'.out = "return"
             /\ Disconnected(c)
                => ret'.log = <<>> /\ UNCHANGED <<socket, locked, rx>>]_vars

\* C5: send of a non-empty request on a Connected transport, when it returns,
\* has read and discarded all buffered bytes and then written the request, in
\* this order: the receive buffer is empty afterwards, and the value returned
\* is the count the write reported (0 when it reported None).
C5_DrainBeforeWrite ==
    [][\A c \in Clients : \A request \in Requests :
          (Connected(c) /\ request # <<>> /\ send(c, request)
             /\ ret'.out = "return")
          => /\ rx' = <<>>
             /\ ret'.log = IF rx # <<>> THEN <<"in_waiting", "read", "write">>
                                         ELSE <<"in_waiting", "write">>
             /\ ret'.n = IF ret'.written = <<>> THEN 0 ELSE ret'.written[1]
             /\ ret'.n \in 0..Len(request)]_vars

\* A send has drained stale bytes and then written the whole request.
C5_Witness ==
    /\ ret.op = "send" /\ ret.out = "return" /\ ret.pre
    /\ ret.log = <<"in_waiting", "read", "write">>
    /\ ret.arg # <<>> /\ ret.n = Len(ret.arg) /\ rx = <<>> /\ delivered > 0

\* A recv(None) of the caller has returned.
RecvNoneReturned == ret.op = "recv" /\ ret.arg = <<>> /\ ret.out = "return"

\* C6 as stated: when the remote side has delivered its bytes and is silent,
\* and the buffer was not emptied under the loop, recv(None) returns all the
\* bytes that are buffered, and it never returns when the count of its last
\* poll differs from the count of the poll before.
C6_ReturnsWholeFrame ==
    [][\A c \in Callers :
          (/\ pc[c] # "idle" /\ pc'[c] = "idle"
           /\ ret'.out = "return" /\ ret'.arg = <<>> /\ ret'.reason # "emptied"
           /\ delivered = MaxBytes)
          => /\ ret'.lastc = ret'.prevc
             /\ rx # <<>> => ret'.data = rx]_vars

\* C6, amended: recv(None) leaves the polling loop as "frame complete" only
\* when the buffered count equals the count recorded at the poll before, and
\* it then returns exactly the bytes that were buffered at that poll; when the
\* count of its last poll differed from the one before, it left the loop on
\* the connect-timeout (or on an emptied buffer), and after a timeout it
\* returns no more bytes than it had counted.
C6_FrameBoundary ==
    RecvNoneReturned
    => /\ ret.reason \in {"stable", "emptied", "timeout"}
       /\ ret.reason = "stable"
          => /\ ret.lastc = ret.prevc /\ ret.lastc >= 1
             /\ Len(ret.seen) = ret.lastc /\ ret.data = ret.seen
       /\ ret.reason = "emptied" => ret.lastc = 0 /\ ret.prevc >= 1
       /\ ret.lastc # ret.prevc => ret.reason \in {"timeout", "emptied"}
       /\ ret.reason = "timeout"
          => /\ ret.time > Timeout
             /\ Len(ret.data) <= (IF ret.lastc > ret.prevc THEN ret.lastc ELSE ret.prevc)

\* A recv(None) has seen the count grow, then stay, and returned both bytes.
C6_Witness ==
    /\ RecvNoneReturned /\ ret.reason = "stable"
    /\ ret.data = <<1, 2>> /\ ret.time >= 2 /\ ret.time <= Timeout
    /\ Len(ret.log) >= 5

\* C7: a recv returns within the connect-timeout (and the one sleep that was
\* under way when it elapsed), with what it has gathered.
C7_HardTimeout ==
    (ret.op = "recv" /\ ret.out = "return") => ret.time <= Timeout + MaxSleep

\* C8: no error the device raises during a send or a recv reaches the caller:
\* it is caught, and the transport is Disconnected afterwards.
C8_NoRawException ==
    ret.op \in {"send", "recv"} => ret.out # "DeviceError"

\* C9: of two transports on the same endpoint at most one is Connected.
C9_ExclusiveLine ==
    Cardinality({c \in Clients : Connected(c)}) <= 1

\* C10 as stated: a Disconnected transport becomes Connected only in a call of
\* connect() by the caller.
C10_OnlyExplicitConnect ==
    [][\A c \in Clients :
          (Disconnected(c) /\ Connected(c)') => (ret'.who = c /\ ret'.op = "connect")]_vars

\* C10, amended: a Disconnected transport stays Disconnected in every send,
\* recv, close and is_socket_open, and in every step of the other transport;
\* it becomes Connected only in its own call of connect(), made by the caller
\* or by a read of the connected property.
C10_NoAutoReconnect ==
    [][\A c \in Clients :
          Disconnected(c)
          => /\ Connected(c)' => (ret'.who = c /\ ret'.op \in {"connect", "connected"})
             /\ (\/ \E request \in Requests : send(c, request)
                 \/ \E size \in Sizes : recv(c, size)
                 \/ close(c)
                 \/ is_socket_open(c))
                => Disconnected(c)']_vars

\* A read of the connected property has connected a Disconnected transport.
C10_Witness ==
    /\ ret.op = "connected" /\ ~ret.pre /\ ret.ok /\ ret.out = "return"
    /\ Connected(ret.who) /\ ret.who \in locked

\* C18: a send of a zero-length request on a Connected transport returns 0 and
\* accesses the device in no way: no buffered-count query, no read, no write;
\* the bytes buffered on the line stay as they are.
C18_EmptySendNoOp ==
    [][\A c \in Clients :
          (Connected(c) /\ send(c, <<>>))
          => /\ ret'.who = c /\ ret'.out = "return" /\ ret'.n = 0
             /\ ret'.log = <<>> /\ ret'.written = <<>>
             /\ UNCHANGED <<socket, locked, rx, delivered, pc, loc>>]_vars

\* A zero-length send has returned 0 on a Connected transport with stale bytes
\* buffered, and the bytes are still there.
C18_Witness ==
    /\ ret.op = "send" /\ ret.arg = <<>> /\ ret.pre /\ ret.out = "return"
    /\ ret.n = 0 /\ Connected(ret.who) /\ rx = <<1, 2>>

\* A step in which a recv(n) of transport c, n given, returns.
RecvSizeReturns(c) ==
    /\ ret'.op = "recv" /\ ret'.out = "return" /\ ret'.arg # <<>>
    /\ \/ recv(c, ret'.arg)
       \/ _wait_for_data(c)
       \/ read(c)

\* C19 as stated: a recv(n) that returns has read exactly n bytes.
C19_ReadsExactly ==
    [][\A c \in Callers :
          RecvSizeReturns(c) => Len(ret'.data) = ret'.arg[1]]_vars

\* C19, amended: recv(n) on a Connected transport polls for a frame boundary
\* only when fewer than n bytes are buffered at the call, and goes straight to
\* the read otherwise; when it returns it has taken the first k buffered
\* bytes, k <= n, in arrival order, and left the rest in place; k = n when n
\* bytes were buffered by the end of the read, and k < n only when the read
\* ran into its timeout with fewer than n bytes buffered.
C19_ReadsAtMost ==
    [][\A c \in Callers :
          /\ \A n \in 0..MaxBytes :
                (/\ Connected(c) /\ pc[c] = "idle"
                 /\ ret'.op = "recv" /\ ret'.arg = <<n>>
                 /\ recv(c, <<n>>))
                => IF Len(rx) >= n
                   THEN /\ pc'[c] = "idle"
                        /\ ret'.out = "return"
                           => ret'.log = <<"in_waiting", "read">> /\ ret'.time = 0
                   ELSE \/ pc'[c] = "wait2"
                        \/ /\ ret'.out = "DeviceError"
                           /\ ret'.log \in {<<"in_waiting">>,
                                            <<"in_waiting", "in_waiting">>}
          /\ RecvSizeReturns(c)
             => LET k == Len(ret'.data) IN
                /\ k <= ret'.arg[1]
                /\ ret'.data = Take(rx, k)
                /\ rx' = Drop(rx, k)
                /\ Len(rx) >= ret'.arg[1] => k = ret'.arg[1]
                /\ k < ret'.arg[1] => k = Len(rx) /\ ret'.time > Timeout]_vars

\* A recv(1) found the line empty, polled while two bytes arrived, and returned
\* the first one, leaving the second one buffered.
C19_Witness ==
    /\ ret.op = "recv" /\ ret.arg = <<1>> /\ ret.out = "return"
    /\ ret.data = <<1>> /\ rx = <<2>> /\ Len(ret.log) > 2

\* C20: a read of the connected property is a call of connect(): on a Connected
\* transport it returns true and touches nothing; on a Disconnected transport
\* it tries to open the device, the value it returns tells whether the
\* transport is Connected afterwards, and it returns false only when the
\* attempt failed and the transport is still Disconnected.
C20_ConnectedConnects ==
    [][\A c \in Clients :
          connected(c)
          => /\ ret'.who = c /\ ret'.op = "connected"
             /\ Connected(c)
                => /\ ret'.out = "return" /\ ret'.ok /\ ret'.log = <<>>
                   /\ UNCHANGED <<socket, locked, rx>>
             /\ Disconnected(c)
                => /\ ret'.log # <<>> /\ Head(ret'.log) = "open"
                   /\ ret'.out = "return" => ret'.ok = Connected(c)'
                   /\ ret'.ok => Connected(c)' /\ c \in locked'
             /\ (ret'.out = "return" /\ ~ret'.ok)
                => Disconnected(c) /\ Disconnected(c)']_vars

\* A read of the connected property on a Disconnected transport has tried to
\* open the device, failed, and reported false.
C20_Witness ==
    /\ ret.op = "connected" /\ ~ret.pre /\ ~ret.ok /\ ret.out = "return"
    /\ Head(ret.log) = "open" /\ Disconnected(ret.who) /\ locked # {}

\* C11: for all legal line parameters the client is built with
\* t0 = (1 + bytesize + stopbits) / baudrate, a polling interval of 4 * t0 but
\* never less than 1 ms, and: above 19200 baud no inter-byte timeout and a
\* silent interval of 1750 microseconds whatever bytesize and stopbits are; up
\* to and including 19200 baud an inter-byte timeout of 1.5 * t0 and a silent
\* interval that is 3.5 * t0 rounded to a whole number of microseconds.
C11_TimingProfile ==
    timing.made
    => LET b == timing.baudrate
           bits2 == 2 + 2 * timing.bytesize + timing.stopbits2
           t0 == timing.t0
           ri == timing.recv_interval
           si == timing.silent_interval
       IN  /\ t0[1] * 2 * b = bits2 * t0[2]
           /\ ri[1] * 1000 >= ri[2]
           /\ ri[1] * t0[2] >= 4 * t0[1] * ri[2]
           /\ \/ ri[1] * 1000 = ri[2]
              \/ ri[1] * t0[2] = 4 * t0[1] * ri[2]
           /\ si[2] = 1000000
           /\ b > 19200
              => timing.inter_byte_timeout[1] = 0 /\ si[1] = 1750
           /\ b <= 19200
              => /\ 2 * timing.inter_byte_timeout[1] * t0[2]
                    = 3 * t0[1] * timing.inter_byte_timeout[2]
                 /\ 2 * (si[1] * 4 * b - 7 * bits2 * 1000000) <= 4 * b
                 /\ 2 * (7 * bits2 * 1000000 - si[1] * 4 * b) <= 4 * b

\* A client built for 19200 baud, 8 data bits and 1 stop bit: t0 is 10 / 19200 s,
\* the inter-byte timeout is set and the silent interval is 1823 microseconds.
C11_Witness ==
    /\ timing.made /\ timing.baudrate = 19200
    /\ timing.bytesize = 8 /\ timing.stopbits2 = 2
    /\ timing.inter_byte_timeout[1] # 0
    /\ timing.silent_interval = <<1823, 1000000>>

\* C12: the reconnect task of the asynchronous client waits reconnect_delay
\* before its first attempt; after a failed attempt the delay is doubled, but
\* never beyond reconnect_delay_max; after a successful attempt the delay is
\* reconnect_delay again; and in every state
\* reconnect_delay <= the current delay <= reconnect_delay_max.
C12_ReconnectBackoff ==
    [][LET lo == comm_params.reconnect_delay
           hi == comm_params.reconnect_delay_max
           d == reconnect_delay_current
       IN  /\ lo <= d /\ d <= hi
           /\ lo <= d' /\ d' <= hi
           /\ (do_reconnect /\ lastev.kind # "reconnect") => lastev'.waited = lo
           /\ (do_reconnect /\ lastev.kind = "reconnect")
              => lastev'.waited = (IF 2 * lastev.waited <= hi
                                   THEN 2 * lastev.waited ELSE hi)
           /\ (do_reconnect /\ ~lastev'.ok)
              => /\ reconnect_task' = "sleeping"
                 /\ d' = (IF 2 * d <= hi THEN 2 * d ELSE hi)
           /\ (do_reconnect /\ lastev'.ok)
              => aconnected' /\ reconnect_task' = "none" /\ d' = lo]_vars

\* After three failed attempts with delays 1, 2 and 4 the delay stands at its
\* maximum 5.
C12_Witness ==
    /\ comm_params = [reconnect_delay |-> 1, reconnect_delay_max |-> 5]
    /\ lastev = Event("reconnect", FALSE, 4, TRUE)
    /\ reconnect_delay_current = 5 /\ reconnect_task = "sleeping"

\* C13: with reconnect_delay = 0 no reconnect is ever scheduled or attempted,
\* after a lost connection, a failed connect or a close, and the callback is
\* never invoked.
C13_ReconnectDisabled ==
    [][comm_params.reconnect_delay = 0
       => /\ reconnect_task' = "none"
          /\ ~do_reconnect
          /\ lastev'.kind # "reconnect" /\ ~lastev'.cb]_vars

\* A client built with reconnect_delay = 0 has lost its connection and stays
\* disconnected with nothing scheduled.
C13_Witness ==
    /\ comm_params.reconnect_delay = 0 /\ lastev.kind = "lost"
    /\ ~aconnected /\ reconnect_task = "none"

\* A step of the engine within a transaction.
EngineStep == txn_send \/ txn_recv \/ txn_retry

\* C14: a request to address 0 with broadcast handling enabled is sent once,
\* is resolved as a success by that send, and no recv and no retry is made for
\* it; with broadcast handling disabled a request to address 0 waits for its
\* reply like a request to any other address.
C14_Broadcast ==
    [][/\ (txn_send /\ xconnected)
          => IF txn.slave = 0 /\ params.broadcast_enable
             THEN /\ txn'.state = "Complete" /\ txn'.result = "ok"
                  /\ txn'.sends = 1 /\ txn'.recvs = 0
             ELSE /\ txn'.state = "WaitingForReply" /\ txn'.result = "none"
                  /\ txn'.sends = 1
       /\ (txn.slave = 0 /\ params.broadcast_enable)
          => /\ ~txn_recv /\ ~txn_retry
             /\ txn.recvs = 0 /\ txn.sends <= 1
             /\ txn.result \in {"none", "ok", "ConnectionError"}
       /\ (txn.slave = 0 /\ ~params.broadcast_enable /\ txn.result = "ok")
          => txn.recvs >= 1]_vars

\* A broadcast request has been resolved by its one send, on a client that
\* would retry.
C14_Witness ==
    /\ txn.slave = 0 /\ params.broadcast_enable
    /\ params.retry_on_empty /\ params.retries > 0
    /\ txn.state = "Complete" /\ txn.result = "ok"
    /\ txn.sends = 1 /\ txn.recvs = 0

\* A step in which recv returns to the engine of a client that retries on
\* empty replies.
ReplyStep == txn_recv /\ xconnected /\ params.retry_on_empty

C16_ConnectionError ==
    [][/\ (EngineStep /\ ~xconnected
             /\ ~(txn.state = "Retrying" /\ params.no_resend_on_retry))
          => /\ txn'.state = "Failed" /\ txn'.result = "ConnectionError"
             /\ txn'.retries = txn.retries
             /\ txn'.sends = txn.sends /\ txn'.recvs = txn.recvs
       /\ (txn'.result = "ConnectionError" /\ txn.result # "ConnectionError")
          => EngineStep /\ ~xconnected
       /\ (EngineStep /\ xconnected) => txn'.result # "ConnectionError"
       /\ txn.result = "ConnectionError" => ~EngineStep]_vars

\* The transport went down after an empty reply: the retry has ended the
\* transaction with a connection error, with retries left.
C16_Witness ==
    /\ txn.result = "ConnectionError" /\ txn.state = "Failed"
    /\ txn.empties >= 1 /\ txn.retries >= 1 /\ ~xconnected

====
